---- MODULE Spec2Model ----
(***************************************************************************)
(* A model of tidyforge: the shared utilities of @tidyforge/core           *)
(* (utils.js, utils-husky.js) and the two setup orchestrators              *)
(* (pretty-please/bin/setup.js, commit-ment/bin/setup.js).                 *)
(*                                                                         *)
(* JSON values are tagged records, files are content tokens or character   *)
(* sequences, and library calls (fs.copyFileSync, fs.writeFileSync, ...)   *)
(* are atomic: they either take effect or throw without effect.            *)
(***************************************************************************)
EXTENDS Integers, Sequences, FiniteSets, TLC

VARIABLES
    manifest,   \* the parsed package.json object handed to the manifest editor
    mcall,      \* the last manifest-editor call: operation, arguments, manifest before
    srcFiles,   \* copyConfigFiles: which files exist in srcDir
    destFiles,  \* copyConfigFiles: content of each file in destDir ("absent" if none)
    batch,      \* copyConfigFiles: [allowOverwrite, i (next index into files), results]
    outcomes,   \* one record per copyFile call of the batch, in call order
    hook,       \* the file .husky/<hookName>: [exists, content (a character sequence)]
    hcall,      \* the last hook-installer call: arguments, file before, result
    used,       \* the commands passed to hook-installer calls so far
    repo,       \* the project as ensureHuskyReady sees it: [git, installed, initialized]
    rcall,      \* the last readiness call: arguments, project before, result
    orch,       \* the orchestrator that runs: "pretty-please" or "commit-ment"
    bundle,     \* the files shipped with the installer: configs, scripts.json, hooks
    pc,         \* the step of main that runs next
    exitCode,   \* "running", or the exit code of the process
    pkgFile,    \* package.json on disk
    project,    \* the other files of the project directory
    start,      \* pkgFile and project as they were when the run started
    pkgMem,     \* the manifest in memory (pkg of main)
    idx,        \* the index of the loop in progress
    steps,      \* the steps of main that have run to their end
    errors,     \* the error messages logged
    writes,     \* how many times the run has written package.json
    run         \* which run of the orchestrator this is, the errors the run before
                \* logged, and whether every prompt of this run was answered "n"

mergeVars == <<manifest, mcall>>
copyVars == <<srcFiles, destFiles, batch, outcomes>>
hookVars == <<hook, hcall, used>>
readyVars == <<repo, rcall>>
mainVars == <<orch, bundle, pc, exitCode, pkgFile, project, start, pkgMem, idx, steps, errors,
              writes, run>>
vars == <<manifest, mcall, srcFiles, destFiles, batch, outcomes, hook, hcall, used,
          repo, rcall,
          orch, bundle, pc, exitCode, pkgFile, project, start, pkgMem, idx, steps, errors,
          writes, run>>

(***************************************************************************)
(* Bounds                                                                  *)
(***************************************************************************)
MaxFiles == 2
MaxHookCalls == 2
MaxReadyCalls == 2

(***************************************************************************)
(* JSON values                                                             *)
(***************************************************************************)
JUndefined == [t |-> "undefined"]
JNull == [t |-> "null"]
JStr(s) == [t |-> "str", s |-> s]
JNum(n) == [t |-> "num", n |-> n]
JObj(f) == [t |-> "obj", o |-> f]
EmptyObj == [k \in {} |-> JNull]

\* JavaScript truthiness of a JSON value (the `!x` tests of utils.js)
Truthy(v) ==
    CASE v.t = "obj" -> TRUE
      [] v.t = "str" -> v.s # ""
      [] v.t = "num" -> v.n # 0
      [] OTHER -> FALSE

\* `x ?? y`
Nullish(v) == v.t \in {"undefined", "null"}

\* o[k] on a plain object: undefined when the key is absent
Get(o, k) == IF k \in DOMAIN o THEN o[k] ELSE JUndefined

\* o[k] = v
Put(o, k, v) == [j \in DOMAIN o \cup {k} |-> IF j = k THEN v ELSE o[j]]

\* the own enumerable properties `{...v}` copies
Spread(v) == IF v.t = "obj" THEN v.o ELSE EmptyObj

\* { ...a, ...b }
SpreadMerge(a, b) ==
    [k \in DOMAIN Spread(a) \cup DOMAIN Spread(b) |->
        IF k \in DOMAIN Spread(b) THEN Spread(b)[k] ELSE Spread(a)[k]]

\* all objects with keys among K and values in V
Objects(K, V) == UNION {[S -> V] : S \in SUBSET K}

(***************************************************************************)
(* Each specification below exercises one component; the variables of the  *)
(* other components then stay at these idle values.                        *)
(***************************************************************************)
NoCall == [op |-> "none"]

MergeIdle == manifest = EmptyObj /\ mcall = NoCall

CopyIdle ==
    /\ srcFiles = <<>>
    /\ destFiles = <<>>
    /\ batch = NoCall
    /\ outcomes = <<>>

NoHook == [exists |-> FALSE, content |-> <<>>]

HookIdle == hook = NoHook /\ hcall = NoCall /\ used = {}

ReadyIdle == repo = <<>> /\ rcall = NoCall

MainIdle ==
    /\ orch = "none" /\ bundle = <<>> /\ pc = "idle" /\ exitCode = "running"
    /\ pkgFile = <<>> /\ project = <<>> /\ start = <<>> /\ pkgMem = <<>>
    /\ idx = 0 /\ steps = {} /\ errors = {} /\ writes = 0 /\ run = NoCall

(***************************************************************************)
(* Package manifest editor (core/utils.js)                                 *)
(***************************************************************************)
\* mutant: a script that is kept is blanked
mergeScriptsBlanksKept(pkg, newScripts, overwrite) ==
    LET scripts == IF Nullish(Get(pkg, "scripts")) THEN EmptyObj ELSE pkg["scripts"].o
        merged == [k \in DOMAIN scripts \cup DOMAIN newScripts |->
                     IF k \in DOMAIN newScripts /\ (~Truthy(Get(scripts, k)) \/ overwrite)
                     THEN newScripts[k]
                     ELSE IF k \in DOMAIN newScripts THEN JStr("") ELSE scripts[k]]
    IN Put(pkg, "scripts", JObj(merged))

\* mergeScripts: every entry of newScripts is visited once, so the loop is a
\* pointwise update of pkg.scripts
mergeScripts(pkg, newScripts, overwrite) ==
    LET scripts == IF Nullish(Get(pkg, "scripts")) THEN EmptyObj ELSE pkg["scripts"].o
        merged == [k \in DOMAIN scripts \cup DOMAIN newScripts |->
                     IF k \in DOMAIN newScripts /\ (~Truthy(Get(scripts, k)) \/ overwrite)
                     THEN newScripts[k] ELSE scripts[k]]
    IN Put(pkg, "scripts", JObj(merged))

\* mutant: the existing block wins over the new value
mergePackageConfigKeepOld(pkg, configKey, configValue, merge) ==
    IF ~Truthy(Get(pkg, configKey)) \/ ~merge
    THEN Put(pkg, configKey, configValue)
    ELSE Put(pkg, configKey, JObj(SpreadMerge(configValue, pkg[configKey])))

mergePackageConfig(pkg, configKey, configValue, merge) ==
    IF ~Truthy(Get(pkg, configKey)) \/ ~merge
    THEN Put(pkg, configKey, configValue)
    ELSE Put(pkg, configKey, JObj(SpreadMerge(pkg[configKey], configValue)))

(***************************************************************************)
(* File copier (core/utils.js)                                             *)
(***************************************************************************)
Absent == "absent"
Bundled == "bundled"     \* content of a file shipped with the installer
UserFile == "user"       \* content of a file the project already had

\* the lines a user may type at a prompt
Answers == {"", "y", "n"}

\* promptUser: the normalized answer is a yes when it is "y", "yes" or empty
promptUser(answer) == answer \in {"y", "yes", ""}

\* mutant: an existing destination is overwritten without asking
copyFileClobber(srcExists, dest, allowOverwrite, answer, ioError) ==
    IF ~srcExists
    THEN [ret |-> FALSE, dest |-> dest, prompted |-> FALSE, log |-> "error: source not found"]
    ELSE IF ioError
    THEN [ret |-> FALSE, dest |-> dest, prompted |-> FALSE, log |-> "error: failed to copy"]
    ELSE [ret |-> TRUE, dest |-> Bundled, prompted |-> FALSE, log |-> "success: created"]

\* copyFile(src, dest, description, allowOverwrite): srcExists and dest are the
\* state of the two paths, answer the line typed if a prompt is shown, ioError
\* whether fs.copyFileSync throws.  Returns the boolean result, the new state of
\* dest, whether the user was prompted, and the message logged.
copyFile(srcExists, dest, allowOverwrite, answer, ioError) ==
    IF ~srcExists
    THEN [ret |-> FALSE, dest |-> dest, prompted |-> FALSE, log |-> "error: source not found"]
    ELSE IF dest # Absent /\ allowOverwrite /\ ~promptUser(answer)
    THEN [ret |-> FALSE, dest |-> dest, prompted |-> TRUE, log |-> "info: skipped"]
    ELSE IF dest # Absent /\ ~allowOverwrite
    THEN [ret |-> FALSE, dest |-> dest, prompted |-> FALSE, log |-> "warning: skipping"]
    ELSE IF ioError
    THEN [ret |-> FALSE, dest |-> dest, prompted |-> dest # Absent,
          log |-> "error: failed to copy"]
    ELSE [ret |-> TRUE, dest |-> Bundled, prompted |-> dest # Absent,
          log |-> "success: created"]

\* the tally update of copyConfigFiles after one copyFile call
tally(results, copied, destExists) ==
    IF copied THEN [results EXCEPT !.success = @ + 1]
    ELSE IF destExists THEN [results EXCEPT !.skipped = @ + 1]
    ELSE [results EXCEPT !.failed = @ + 1]

(***************************************************************************)
(* Specification of the file copier: one copyConfigFiles batch over an     *)
(* arbitrary source and destination directory                              *)
(***************************************************************************)
FileNames == <<"eslint.config.mjs", ".prettierrc", "commitlint.config.mjs", "a", "b">>
files == SubSeq(FileNames, 1, MaxFiles)
FileSet == {files[i] : i \in 1..Len(files)}

CopyInit ==
    /\ srcFiles \in [FileSet -> BOOLEAN]
    /\ destFiles \in [FileSet -> {Absent, UserFile, Bundled}]
    /\ \E allowOverwrite \in BOOLEAN :
         batch = [op |-> "copyConfigFiles", allowOverwrite |-> allowOverwrite, i |-> 1,
                  results |-> [success |-> 0, skipped |-> 0, failed |-> 0]]
    /\ outcomes = <<>>
    /\ MergeIdle /\ HookIdle /\ ReadyIdle /\ MainIdle

\* one iteration of the loop of copyConfigFiles
CopyConfigFilesStep ==
    /\ batch.i <= Len(files)
    /\ LET file == files[batch.i]
           willPrompt == srcFiles[file] /\ destFiles[file] # Absent /\ batch.allowOverwrite
       IN \E answer \in (IF willPrompt THEN Answers ELSE {"-"}),
             ioError \in BOOLEAN :
            LET r == copyFile(srcFiles[file], destFiles[file], batch.allowOverwrite,
                              answer, ioError)
            IN /\ destFiles' = [destFiles EXCEPT ![file] = r.dest]
               /\ batch' = [batch EXCEPT !.i = @ + 1,
                                         !.results = tally(@, r.ret, r.dest # Absent)]
               /\ outcomes' = Append(outcomes,
                                [file |-> file, srcExists |-> srcFiles[file],
                                 destBefore |-> destFiles[file], answer |-> answer,
                                 allowOverwrite |-> batch.allowOverwrite,
                                 ret |-> r.ret, prompted |-> r.prompted, log |-> r.log,
                                 destAfter |-> r.dest])
    /\ UNCHANGED <<srcFiles, mergeVars, hookVars, readyVars, mainVars>>

CopyNext == CopyConfigFilesStep

SpecCopy == CopyInit /\ [][CopyNext]_vars

(***************************************************************************)
(* C5: copyFile changes dest only when it returns true.  A missing source  *)
(* gives a failure (error logged, false) and dest is neither created nor   *)
(* changed; an existing dest with allowOverwrite false gives a skip        *)
(* (warning logged, false) with no prompt and dest unchanged; an existing  *)
(* dest with allowOverwrite true and a "no" answer leaves dest unchanged.  *)
(***************************************************************************)
C5_CopyFileFrame ==
    \A i \in 1..Len(outcomes) :
        LET c == outcomes[i]
        IN /\ ~c.ret => c.destAfter = c.destBefore
           /\ ~c.srcExists =>
                /\ ~c.ret /\ c.log = "error: source not found"
                /\ c.destAfter = c.destBefore /\ ~c.prompted
           /\ (c.srcExists /\ c.destBefore # Absent /\ ~c.allowOverwrite) =>
                /\ ~c.ret /\ c.log = "warning: skipping"
                /\ c.destAfter = c.destBefore /\ ~c.prompted
           /\ (c.srcExists /\ c.destBefore # Absent /\ c.allowOverwrite
                 /\ c.answer = "n") =>
                /\ ~c.ret /\ c.prompted /\ c.destAfter = c.destBefore

\* all three cases of the claim have happened in one batch or another: here a
\* declined overwrite after a missing source
C5_Witness ==
    /\ Len(outcomes) >= 2
    /\ ~outcomes[1].srcExists /\ outcomes[1].destAfter = Absent
    /\ outcomes[2].srcExists /\ outcomes[2].destBefore = UserFile
    /\ outcomes[2].prompted /\ outcomes[2].answer = "n"
    /\ outcomes[2].destAfter = UserFile

(***************************************************************************)
(* C6 (as stated): when copyConfigFiles returns, every listed file has     *)
(* been processed once, in order, and the tally counts a copied file as    *)
(* success, a file skipped because the destination exists (overwrite not   *)
(* allowed or declined) as skipped, and a file whose source is missing or  *)
(* whose copy raised an I/O error as failed, whether or not a destination  *)
(* of that name exists.                                                    *)
(***************************************************************************)
Count(logs) == Cardinality({i \in 1..Len(outcomes) : outcomes[i].log \in logs})

C6_TallyByOutcome ==
    (batch.op # "none" /\ batch.i > Len(files)) =>
        /\ Len(outcomes) = Len(files)
        /\ \A i \in 1..Len(files) : outcomes[i].file = files[i]
        /\ batch.results.success = Count({"success: created"})
        /\ batch.results.skipped = Count({"info: skipped", "warning: skipping"})
        /\ batch.results.failed = Count({"error: source not found", "error: failed to copy"})

(***************************************************************************)
(* Hook installer (core/utils-husky.js).  Hook files and commands are      *)
(* sequences of characters.                                                *)
(***************************************************************************)
\* the methods of the log object of utils.js
log == {"success", "warning", "error", "info"}

\* the names utils.js exports
utilsExports == {"log", "readJSON", "writeJSON", "copyFile", "copyConfigFiles",
                 "validatePackageJson", "mergeScripts", "mergePackageConfig"}

Whitespace == {" ", "\n", "\t"}

RECURSIVE TrimStart(_)
TrimStart(s) == IF s # <<>> /\ Head(s) \in Whitespace THEN TrimStart(Tail(s)) ELSE s

RECURSIVE TrimEnd(_)
TrimEnd(s) ==
    IF s # <<>> /\ s[Len(s)] \in Whitespace THEN TrimEnd(SubSeq(s, 1, Len(s) - 1)) ELSE s

\* String.prototype.trim
Trim(s) == TrimEnd(TrimStart(s))

\* String.prototype.includes
Includes(s, t) == \E i \in 0..(Len(s) - Len(t)) : SubSeq(s, i + 1, i + Len(t)) = t

\* the two bootstrap lines and the blank line installHook writes before the command
Preamble ==
    <<"#", "!", "/", "u", "s", "r", "/", "b", "i", "n", "/", "e", "n", "v", " ", "s", "h", "\n">> \o
    <<".", " ", "\"", "$", "(", "d", "i", "r", "n", "a", "m", "e", " ", "-", "-", " ",
      "\"", "$", "0", "\"", ")", "/", "_", "/", "h", "u", "s", "k", "y", ".", "s", "h", "\"", "\n">> \o
    <<"\n">>

\* the hook file installHook writes
hookContent(hookCommand) == Preamble \o hookCommand \o <<"\n">>

\* promptHookOverwrite: log.warn is called before the question is asked, and
\* promptUser is imported from utils.js; a call of a missing function throws
promptHookOverwrite(answer) ==
    IF "warn" \notin log THEN [threw |-> TRUE, prompted |-> FALSE, yes |-> FALSE]
    ELSE IF "promptUser" \notin utilsExports
    THEN [threw |-> TRUE, prompted |-> FALSE, yes |-> FALSE]
    ELSE [threw |-> FALSE, prompted |-> TRUE, yes |-> promptUser(answer)]

\* the write of installHook: fs.writeFileSync, then fs.chmodSync, in a try block
writeHook(h, hookCommand, prompted, io) ==
    IF io = "writeFails"
    THEN [ret |-> "false", hook |-> h, prompted |-> prompted, io |-> io]
    ELSE [ret |-> IF io = "chmodFails" THEN "false" ELSE "true",
          hook |-> [exists |-> TRUE, content |-> hookContent(hookCommand)],
          prompted |-> prompted, io |-> io]

\* mutant: an existing hook is rewritten even when it already holds the command
installHookRewrite(h, hookCommand, overwrite, answer, io) ==
    IF h.exists /\ ~overwrite
    THEN LET p == promptHookOverwrite(answer)
         IN IF p.threw
            THEN [ret |-> "threw", hook |-> h, prompted |-> p.prompted, io |-> "-"]
            ELSE IF ~p.yes
            THEN [ret |-> "false", hook |-> h, prompted |-> p.prompted, io |-> "-"]
            ELSE writeHook(h, hookCommand, p.prompted, io)
    ELSE writeHook(h, hookCommand, FALSE, io)

\* installHook(userRoot, hookName, hookCommand, overwrite) on the hook file h;
\* ret is "true", "false", or "threw" when the returned promise rejects
installHook(h, hookCommand, overwrite, answer, io) ==
    IF h.exists /\ Includes(h.content, Trim(hookCommand))
    THEN [ret |-> "true", hook |-> h, prompted |-> FALSE, io |-> "-"]
    ELSE IF h.exists /\ ~overwrite
    THEN LET p == promptHookOverwrite(answer)
         IN IF p.threw
            THEN [ret |-> "threw", hook |-> h, prompted |-> p.prompted, io |-> "-"]
            ELSE IF ~p.yes
            THEN [ret |-> "false", hook |-> h, prompted |-> p.prompted, io |-> "-"]
            ELSE writeHook(h, hookCommand, p.prompted, io)
    ELSE writeHook(h, hookCommand, FALSE, io)

\* mutant: the command is appended without looking for it in the file
addToHookBlind(h, hookCommand, io) ==
    IF ~h.exists
    THEN [ret |-> "false", hook |-> h, prompted |-> FALSE, io |-> "-"]
    ELSE IF io = "writeFails"
    THEN [ret |-> "false", hook |-> h, prompted |-> FALSE, io |-> io]
    ELSE [ret |-> "true",
          hook |-> [h EXCEPT !.content = @ \o <<"\n">> \o hookCommand \o <<"\n">>],
          prompted |-> FALSE, io |-> "ok"]

\* addToHook(userRoot, hookName, hookCommand) on the hook file h
addToHook(h, hookCommand, io) ==
    IF ~h.exists
    THEN [ret |-> "false", hook |-> h, prompted |-> FALSE, io |-> "-"]
    ELSE IF Includes(h.content, Trim(hookCommand))
    THEN [ret |-> "true", hook |-> h, prompted |-> FALSE, io |-> "-"]
    ELSE IF io = "writeFails"
    THEN [ret |-> "false", hook |-> h, prompted |-> FALSE, io |-> io]
    ELSE [ret |-> "true",
          hook |-> [h EXCEPT !.content = @ \o <<"\n">> \o hookCommand \o <<"\n">>],
          prompted |-> FALSE, io |-> "ok"]

(***************************************************************************)
(* Specification of the hook installer: a sequence of installHook and      *)
(* addToHook calls on one hook file                                        *)
(***************************************************************************)
\* commands: "l", "lx" (contains "l"), "x", " l" (trims to "l"), "sh" (occurs
\* in the preamble), " " (trims to the empty string)
Commands == {<<"l">>, <<"l", "x">>, <<"x">>, <<" ", "l">>, <<"s", "h">>, <<" ">>}

\* hook files a project may start with: none, a hand-written one, an installed one
InitHooks == {NoHook,
              [exists |-> TRUE, content |-> <<"x", "\n">>],
              [exists |-> TRUE, content |-> hookContent(<<"l">>)]}

HookInit ==
    /\ hook \in InitHooks
    /\ hcall = [op |-> "none", n |-> 0, hookCommand |-> <<>>, ret |-> "none"]
    /\ used = {}
    /\ MergeIdle /\ CopyIdle /\ ReadyIdle /\ MainIdle

\* what a call remembers of the call before it
Last == [op |-> hcall.op, hookCommand |-> hcall.hookCommand, ret |-> hcall.ret]

InstallHookCall ==
    /\ hcall.n < MaxHookCalls
    /\ \E hookCommand \in Commands, overwrite \in BOOLEAN :
       \E answer \in (IF hook.exists /\ ~overwrite THEN Answers ELSE {"-"}),
          io \in {"ok", "writeFails", "chmodFails"} :
         LET r == installHook(hook, hookCommand, overwrite, answer, io)
         IN /\ hook' = r.hook
            /\ hcall' = [op |-> "installHook", n |-> hcall.n + 1,
                         hookCommand |-> hookCommand, overwrite |-> overwrite,
                         answer |-> IF r.prompted THEN answer ELSE "-",
                         before |-> hook, ret |-> r.ret, prompted |-> r.prompted,
                         io |-> r.io, prev |-> Last]
            /\ used' = used \cup {hookCommand}
    /\ UNCHANGED <<mergeVars, copyVars, readyVars, mainVars>>

AddToHookCall ==
    /\ hcall.n < MaxHookCalls
    /\ \E hookCommand \in Commands, io \in {"ok", "writeFails"} :
         LET r == addToHook(hook, hookCommand, io)
         IN /\ hook' = r.hook
            /\ hcall' = [op |-> "addToHook", n |-> hcall.n + 1,
                         hookCommand |-> hookCommand, overwrite |-> FALSE,
                         answer |-> "-",
                         before |-> hook, ret |-> r.ret, prompted |-> r.prompted,
                         io |-> r.io, prev |-> Last]
            /\ used' = used \cup {hookCommand}
    /\ UNCHANGED <<mergeVars, copyVars, readyVars, mainVars>>

HookNext == InstallHookCall \/ AddToHookCall

SpecHook == HookInit /\ [][HookNext]_vars

(***************************************************************************)
(* C7: installHook is idempotent.  When a call of installHook returned     *)
(* true and the next call is installHook with the same command, that       *)
(* second call returns true, shows no prompt and leaves the hook file as   *)
(* the first call left it.                                                 *)
(***************************************************************************)
SecondInstall ==
    /\ hcall.op = "installHook"
    /\ hcall.prev.op = "installHook"
    /\ hcall.prev.hookCommand = hcall.hookCommand
    /\ hcall.prev.ret = "true"

C7_InstallHookIdempotent ==
    SecondInstall => (hcall.ret = "true" /\ ~hcall.prompted /\ hook = hcall.before)

\* the second of two installs of "lx", the first of which wrote the file
C7_Witness ==
    /\ SecondInstall
    /\ hcall.hookCommand = <<"l", "x">>
    /\ hcall.before.content = hookContent(<<"l", "x">>)
    /\ ~hcall.overwrite

(***************************************************************************)
(* C8 (as stated): after any sequence of installHook and addToHook calls   *)
(* on one hook file, no command passed to a call occurs more than once in  *)
(* the file (commands that are blank or part of the preamble set aside),   *)
(* and addToHook with a command the file already contains leaves the file  *)
(* byte-identical and returns true.                                        *)
(***************************************************************************)
Occurrences(s, t) ==
    Cardinality({i \in 0..(Len(s) - Len(t)) : SubSeq(s, i + 1, i + Len(t)) = t})

C8_NoCommandTwice ==
    /\ \A c \in used :
         (Trim(c) # <<>> /\ ~Includes(Preamble, c)) => Occurrences(hook.content, c) <= 1
    /\ (hcall.op = "addToHook" /\ hcall.before.exists
          /\ Includes(hcall.before.content, hcall.hookCommand)) =>
         (hook = hcall.before /\ hcall.ret = "true")

(***************************************************************************)
(* C8 (amended): a call of installHook or addToHook with a command whose   *)
(* trimmed text the hook file already contains leaves the file             *)
(* byte-identical, shows no prompt and returns true; a call changes the    *)
(* file only by installHook replacing it with the preamble and the command *)
(* or by addToHook appending a command the file did not contain.           *)
(***************************************************************************)
C8_PresentCommandNotAdded ==
    hcall.op \in {"installHook", "addToHook"} =>
        /\ (hcall.before.exists /\ Includes(hcall.before.content, Trim(hcall.hookCommand))) =>
             (hook = hcall.before /\ hcall.ret = "true" /\ ~hcall.prompted)
        /\ hook # hcall.before =>
             \/ /\ hcall.op = "installHook"
                /\ hook = [exists |-> TRUE, content |-> hookContent(hcall.hookCommand)]
             \/ /\ hcall.op = "addToHook"
                /\ hcall.before.exists
                /\ ~Includes(hcall.before.content, Trim(hcall.hookCommand))
                /\ hook.content =
                     hcall.before.content \o <<"\n">> \o hcall.hookCommand \o <<"\n">>

\* addToHook of "l" on a file to which "lx" was appended by the call before
C8_Witness ==
    /\ hcall.op = "addToHook"
    /\ hcall.hookCommand = <<"l">>
    /\ hcall.prev.op = "addToHook" /\ hcall.prev.hookCommand = <<"l", "x">>
    /\ hcall.prev.ret = "true"
    /\ Occurrences(hcall.before.content, <<"l", "x">>) = 1
    /\ ~Includes(hcall.before.content, <<"\n", "l", "\n">>)
    /\ hook = hcall.before

(***************************************************************************)
(* C9 (as stated): installHook with overwrite false on an existing hook    *)
(* file that does not contain the command prompts the user; on a refusal   *)
(* it returns false, raises nothing and leaves the file unchanged; on an   *)
(* approval, or with overwrite true (no prompt), the file becomes the      *)
(* preamble followed by the command (the writes succeeding).               *)
(***************************************************************************)
C9_OverwritePrompt ==
    (hcall.op = "installHook" /\ hcall.before.exists
       /\ ~Includes(hcall.before.content, Trim(hcall.hookCommand))) =>
        /\ hcall.ret # "threw"
        /\ ~hcall.overwrite =>
             /\ hcall.prompted
             /\ ~promptUser(hcall.answer) => (hcall.ret = "false" /\ hook = hcall.before)
             /\ (promptUser(hcall.answer) /\ hcall.io = "ok") =>
                  hook.content = hookContent(hcall.hookCommand)
        /\ hcall.overwrite =>
             /\ ~hcall.prompted
             /\ hcall.io = "ok" => hook.content = hookContent(hcall.hookCommand)

(***************************************************************************)
(* Readiness check (core/utils-husky.js): ensureHuskyReady and the two     *)
(* external commands it may run                                            *)
(***************************************************************************)
\* promptHuskyInstall: log.info, then the imported promptUser
promptHuskyInstall(answer) ==
    IF "info" \notin log \/ "promptUser" \notin utilsExports
    THEN [threw |-> TRUE, prompted |-> FALSE, yes |-> FALSE]
    ELSE [threw |-> FALSE, prompted |-> TRUE, yes |-> promptUser(answer)]

\* promptHuskyInit: the imported promptUser
promptHuskyInit(answer) ==
    IF "promptUser" \notin utilsExports
    THEN [threw |-> TRUE, prompted |-> FALSE, yes |-> FALSE]
    ELSE [threw |-> FALSE, prompted |-> TRUE, yes |-> promptUser(answer)]

\* installHusky: `npm install --save-dev husky`; ok is whether the command succeeds
installHusky(e, ok) ==
    IF ok THEN [ret |-> TRUE, repo |-> [e EXCEPT !.installed = TRUE], log |-> {}]
    ELSE [ret |-> FALSE, repo |-> e, log |-> {"error: failed to install"}]

\* initializeHusky: `npx husky`; ok is whether the command succeeds
initializeHusky(e, ok) ==
    IF ok THEN [ret |-> TRUE, repo |-> [e EXCEPT !.initialized = TRUE], log |-> {}]
    ELSE [ret |-> FALSE, repo |-> e, log |-> {"error: failed to initialize"}]

\* the `if (!isHuskyInstalled(userRoot))` block of ensureHuskyReady; go is
\* whether control leaves the block without returning
installStage(e, autoPrompt, answer, ok) ==
    IF e.installed
    THEN [go |-> TRUE, ret |-> "-", repo |-> e, prompts |-> {}, ran |-> {}, log |-> {}]
    ELSE IF ~autoPrompt
    THEN [go |-> FALSE, ret |-> "false", repo |-> e, prompts |-> {}, ran |-> {},
          log |-> {"error: not installed"}]
    ELSE LET p == promptHuskyInstall(answer)
             asked == IF p.prompted THEN {"install"} ELSE {}
         IN IF p.threw
            THEN [go |-> FALSE, ret |-> "threw", repo |-> e, prompts |-> asked, ran |-> {},
                  log |-> {}]
            ELSE IF ~p.yes
            THEN IF "warn" \notin log
                 THEN [go |-> FALSE, ret |-> "threw", repo |-> e, prompts |-> asked,
                       ran |-> {}, log |-> {}]
                 ELSE [go |-> FALSE, ret |-> "false", repo |-> e, prompts |-> asked,
                       ran |-> {}, log |-> {"warning: installation skipped"}]
            ELSE LET r == installHusky(e, ok)
                 IN [go |-> r.ret, ret |-> IF r.ret THEN "-" ELSE "false", repo |-> r.repo,
                     prompts |-> asked, ran |-> {"npm install"}, log |-> r.log]

\* the `if (!isHuskyInitialized(userRoot))` block of ensureHuskyReady
initStage(e, autoPrompt, answer, ok) ==
    IF e.initialized
    THEN [go |-> TRUE, ret |-> "-", repo |-> e, prompts |-> {}, ran |-> {}, log |-> {}]
    ELSE IF ~autoPrompt
    THEN [go |-> FALSE, ret |-> "false", repo |-> e, prompts |-> {}, ran |-> {},
          log |-> {"error: not initialized"}]
    ELSE LET p == promptHuskyInit(answer)
             asked == IF p.prompted THEN {"init"} ELSE {}
         IN IF p.threw
            THEN [go |-> FALSE, ret |-> "threw", repo |-> e, prompts |-> asked, ran |-> {},
                  log |-> {}]
            ELSE IF ~p.yes
            THEN IF "warn" \notin log
                 THEN [go |-> FALSE, ret |-> "threw", repo |-> e, prompts |-> asked,
                       ran |-> {}, log |-> {}]
                 ELSE [go |-> FALSE, ret |-> "false", repo |-> e, prompts |-> asked,
                       ran |-> {}, log |-> {"warning: initialization skipped"}]
            ELSE LET r == initializeHusky(e, ok)
                 IN [go |-> r.ret, ret |-> IF r.ret THEN "-" ELSE "false", repo |-> r.repo,
                     prompts |-> asked, ran |-> {"npx husky"}, log |-> r.log]

\* ensureHuskyReady(userRoot, autoPrompt) on the project e.  answers are the
\* lines the user types at the install and initialize prompts, cmds whether the
\* two external commands succeed.  ret is "true", "false", or "threw" when the
\* returned promise rejects; exit is the state of the process when the call
\* ends: no path of the function calls process.exit.
ensureHuskyReady(e, autoPrompt, answers, cmds) ==
    IF ~e.git
    THEN [ret |-> "false", repo |-> e, prompts |-> {}, ran |-> {},
          log |-> {"error: git not initialized"}, exit |-> "running"]
    ELSE LET a == installStage(e, autoPrompt, answers.install, cmds.install)
         IN IF ~a.go
            THEN [ret |-> a.ret, repo |-> a.repo, prompts |-> a.prompts, ran |-> a.ran,
                  log |-> a.log, exit |-> "running"]
            ELSE LET b == initStage(a.repo, autoPrompt, answers.init, cmds.init)
                 IN [ret |-> IF b.go THEN "true" ELSE b.ret, repo |-> b.repo,
                     prompts |-> a.prompts \cup b.prompts, ran |-> a.ran \cup b.ran,
                     log |-> a.log \cup b.log, exit |-> "running"]

(***************************************************************************)
(* Specification of the readiness check: a sequence of ensureHuskyReady,   *)
(* installHusky and initializeHusky calls on an arbitrary project          *)
(***************************************************************************)
Repos == [git : BOOLEAN, installed : BOOLEAN, initialized : BOOLEAN]

ReadyInit ==
    /\ repo \in Repos
    /\ rcall = [op |-> "none", n |-> 0]
    /\ MergeIdle /\ CopyIdle /\ HookIdle /\ MainIdle

EnsureHuskyReadyCall ==
    /\ rcall.n < MaxReadyCalls
    /\ \E autoPrompt \in BOOLEAN,
          answers \in [install : Answers, init : Answers],
          cmds \in [install : BOOLEAN, init : BOOLEAN] :
         LET r == ensureHuskyReady(repo, autoPrompt, answers, cmds)
         IN /\ repo' = r.repo
            /\ rcall' = [op |-> "ensureHuskyReady", n |-> rcall.n + 1,
                         autoPrompt |-> autoPrompt, answers |-> answers, before |-> repo,
                         ret |-> r.ret, prompts |-> r.prompts, ran |-> r.ran,
                         log |-> r.log, exit |-> r.exit]
    /\ UNCHANGED <<mergeVars, copyVars, hookVars, mainVars>>

InstallHuskyCall ==
    /\ rcall.n < MaxReadyCalls
    /\ \E ok \in BOOLEAN :
         LET r == installHusky(repo, ok)
         IN /\ repo' = r.repo
            /\ rcall' = [op |-> "installHusky", n |-> rcall.n + 1, before |-> repo,
                         ret |-> r.ret, log |-> r.log]
    /\ UNCHANGED <<mergeVars, copyVars, hookVars, mainVars>>

InitializeHuskyCall ==
    /\ rcall.n < MaxReadyCalls
    /\ \E ok \in BOOLEAN :
         LET r == initializeHusky(repo, ok)
         IN /\ repo' = r.repo
            /\ rcall' = [op |-> "initializeHusky", n |-> rcall.n + 1, before |-> repo,
                         ret |-> r.ret, log |-> r.log]
    /\ UNCHANGED <<mergeVars, copyVars, hookVars, mainVars>>

ReadyNext == EnsureHuskyReadyCall \/ InstallHuskyCall \/ InitializeHuskyCall

SpecReady == ReadyInit /\ [][ReadyNext]_vars

(***************************************************************************)
(* C11 (as stated): ensureHuskyReady on a project without a .git directory *)
(* is fatal: the failure is logged, the process ends with a nonzero exit   *)
(* code, no prompt is shown and no external command is run.  With .git     *)
(* present and prompting on, a user who answers no to the install prompt   *)
(* (husky not installed) or to the initialize prompt (husky installed, not *)
(* initialized) gets not-ready back with a warning logged: the call        *)
(* returns false, the process keeps running and the declined command is    *)
(* not run.                                                                *)
(***************************************************************************)
C11_NoGitFatalDeclineNotReady ==
    rcall.op = "ensureHuskyReady" =>
        /\ ~rcall.before.git =>
             /\ rcall.exit \notin {"running", 0}
             /\ "error: git not initialized" \in rcall.log
             /\ rcall.prompts = {} /\ rcall.ran = {}
        /\ (rcall.before.git /\ ~rcall.before.installed /\ rcall.autoPrompt
              /\ ~promptUser(rcall.answers.install)) =>
             /\ rcall.ret = "false" /\ rcall.exit = "running"
             /\ "install" \in rcall.prompts
             /\ "warning: installation skipped" \in rcall.log
             /\ "npm install" \notin rcall.ran
        /\ (rcall.before.git /\ rcall.before.installed /\ ~rcall.before.initialized
              /\ rcall.autoPrompt /\ ~promptUser(rcall.answers.init)) =>
             /\ rcall.ret = "false" /\ rcall.exit = "running"
             /\ "init" \in rcall.prompts
             /\ "warning: initialization skipped" \in rcall.log
             /\ "npx husky" \notin rcall.ran

(***************************************************************************)
(* Inputs of the manifest editor                                           *)
(***************************************************************************)
ScriptKeys == {"lint", "prepare"}
OldScriptVals == {JStr(""), JStr("custom")}
NewScriptVals == {JStr("eslint ."), JStr("husky")}
BlockKeys == {"x", "y"}
LeafVals == {JObj([p |-> JNum(1)]), JObj([q |-> JNum(2)])}
ConfigKeys == {"lint-staged", "config"}

ScriptsStates == {JUndefined, JNull} \cup {JObj(f) : f \in Objects(ScriptKeys, OldScriptVals)}
BlockStates == {JUndefined, JNull} \cup {JObj(f) : f \in Objects(BlockKeys, LeafVals)}
OtherBlockStates == {JUndefined, JObj([y |-> JNum(1)])}

\* a manifest with the given scripts and config blocks (undefined = key absent)
MakeManifest(s, b, c) ==
    LET all == [name |-> JStr("x"), scripts |-> s, config |-> c] @@ ("lint-staged" :> b)
    IN [k \in {j \in DOMAIN all : all[j] # JUndefined} |-> all[k]]

InitManifests ==
    {MakeManifest(s, b, c) : s \in ScriptsStates, b \in BlockStates, c \in OtherBlockStates}

(***************************************************************************)
(* Specification of the manifest editor: one call on an arbitrary manifest *)
(***************************************************************************)
MergeInit ==
    manifest \in InitManifests /\ mcall = NoCall /\ CopyIdle /\ HookIdle /\ ReadyIdle
    /\ MainIdle

MergeScriptsCall ==
    /\ mcall = NoCall
    /\ \E newScripts \in Objects(ScriptKeys, NewScriptVals), overwrite \in BOOLEAN :
         /\ manifest' = mergeScripts(manifest, newScripts, overwrite)
         /\ mcall' = [op |-> "mergeScripts", pkg |-> manifest,
                      newScripts |-> newScripts, overwrite |-> overwrite]
    /\ UNCHANGED <<copyVars, hookVars, readyVars, mainVars>>

MergePackageConfigCall ==
    /\ mcall = NoCall
    /\ \E configKey \in ConfigKeys, f \in Objects(BlockKeys, LeafVals), merge \in BOOLEAN :
         /\ manifest' = mergePackageConfig(manifest, configKey, JObj(f), merge)
         /\ mcall' = [op |-> "mergePackageConfig", pkg |-> manifest,
                      configKey |-> configKey, configValue |-> JObj(f), merge |-> merge]
    /\ UNCHANGED <<copyVars, hookVars, readyVars, mainVars>>

MergeNext == MergeScriptsCall \/ MergePackageConfigCall

SpecMerge == MergeInit /\ [][MergeNext]_vars

(***************************************************************************)
(* C3 (as stated): after mergeScripts(manifest, newScripts, overwrite),    *)
(* every key of newScripts that was already a key of manifest.scripts      *)
(* keeps its value when overwrite is false, whatever that value is; a key  *)
(* that was absent, or any key when overwrite is true, holds newScripts'   *)
(* value; every other key of manifest.scripts is kept unchanged.           *)
(***************************************************************************)
ScriptsBefore == IF Nullish(Get(mcall.pkg, "scripts")) THEN EmptyObj ELSE mcall.pkg["scripts"].o

C3_MergeScriptsKeepsExisting ==
    mcall.op = "mergeScripts" =>
        LET old == ScriptsBefore
            new == manifest["scripts"].o
        IN /\ DOMAIN new = DOMAIN old \cup DOMAIN mcall.newScripts
           /\ \A k \in DOMAIN mcall.newScripts :
                IF k \in DOMAIN old /\ ~mcall.overwrite
                THEN new[k] = old[k]
                ELSE new[k] = mcall.newScripts[k]
           /\ \A k \in DOMAIN old \ DOMAIN mcall.newScripts : new[k] = old[k]

(***************************************************************************)
(* C4: after mergePackageConfig(manifest, key, value, merge), manifest[key]*)
(* equals value when the key was absent or merge is false; when the key    *)
(* was present and merge is true it is the one-level merge: every key of   *)
(* value holds value's entry (nested objects replaced, not merged), every  *)
(* key only in the existing block keeps its entry; every other top-level   *)
(* key of the manifest is unchanged.                                       *)
(***************************************************************************)
C4_MergeConfigShallow ==
    mcall.op = "mergePackageConfig" =>
        LET k == mcall.configKey
            old == mcall.pkg
            val == mcall.configValue
        IN /\ DOMAIN manifest = DOMAIN old \cup {k}
           /\ \A j \in DOMAIN old \ {k} : manifest[j] = old[j]
           /\ (k \notin DOMAIN old \/ ~mcall.merge) => manifest[k] = val
           /\ (k \in DOMAIN old /\ mcall.merge) =>
                /\ manifest[k].t = "obj"
                /\ DOMAIN manifest[k].o = DOMAIN Spread(old[k]) \cup DOMAIN val.o
                /\ \A x \in DOMAIN val.o : manifest[k].o[x] = val.o[x]
                /\ \A x \in DOMAIN Spread(old[k]) \ DOMAIN val.o :
                     manifest[k].o[x] = old[k].o[x]

\* a merge into an existing block that has a key of its own and a key whose
\* nested object collides with a different nested object of the value
C4_Witness ==
    /\ mcall.op = "mergePackageConfig"
    /\ mcall.merge
    /\ mcall.configKey \in DOMAIN mcall.pkg
    /\ mcall.pkg[mcall.configKey].t = "obj"
    /\ \E x \in DOMAIN mcall.pkg[mcall.configKey].o : x \notin DOMAIN mcall.configValue.o
    /\ \E x \in DOMAIN mcall.pkg[mcall.configKey].o \cap DOMAIN mcall.configValue.o :
         /\ mcall.pkg[mcall.configKey].o[x] = JObj([p |-> JNum(1)])
         /\ mcall.configValue.o[x] = JObj([q |-> JNum(2)])

(***************************************************************************)
(* JSON store (core/utils.js).  A JSON file on disk is absent, unparseable *)
(* text, or the text of a JSON value.                                      *)
(***************************************************************************)
AbsentFile == [kind |-> "absent"]
InvalidFile == [kind |-> "invalid"]
JsonFile(v) == [kind |-> "json", value |-> v]

\* readJSON: the parsed value, or an error logged and process.exit(1)
readJSON(file) ==
    IF file.kind = "json"
    THEN [exit |-> FALSE, value |-> file.value, log |-> "-"]
    ELSE [exit |-> TRUE, value |-> JUndefined, log |-> "error: failed to read"]

\* mutant: the write is reported done without the file being written
writeJSONNoop(file, data, ioError) ==
    IF ioError
    THEN [exit |-> TRUE, file |-> file, log |-> "error: failed to write"]
    ELSE [exit |-> FALSE, file |-> file, log |-> "-"]

\* writeJSON: the file written, or an error logged and process.exit(1)
writeJSON(file, data, ioError) ==
    IF ioError
    THEN [exit |-> TRUE, file |-> file, log |-> "error: failed to write"]
    ELSE [exit |-> FALSE, file |-> JsonFile(data), log |-> "-"]

\* mutant: a missing package.json is taken for an empty manifest
validatePackageJsonLenient(file) ==
    IF file.kind = "absent"
    THEN [exit |-> FALSE, value |-> JObj(EmptyObj), log |-> "-"]
    ELSE readJSON(file)

validatePackageJson(file) ==
    IF file.kind = "absent"
    THEN [exit |-> TRUE, value |-> JUndefined, log |-> "error: no package.json found"]
    ELSE readJSON(file)

(***************************************************************************)
(* Setup orchestrators (pretty-please/bin/setup.js, commit-ment/bin/setup.js)*)
(***************************************************************************)
CONFIGS(o) ==
    IF o = "pretty-please" THEN <<"eslint.config.mjs", ".prettierrc">>
    ELSE <<"commitlint.config.mjs">>

\* mutant: a missing scripts.json ends the process
setupScriptsStepFatal(p, scriptsJson) ==
    IF scriptsJson.kind = "absent"
    THEN [exit |-> TRUE, pkg |-> p, log |-> "error: scripts.json not found"]
    ELSE LET r == readJSON(scriptsJson)
             scriptsConfig == r.value
         IN IF r.exit THEN [exit |-> TRUE, pkg |-> p, log |-> r.log]
            ELSE IF scriptsConfig.t # "obj"
            THEN [exit |-> FALSE, pkg |-> p, log |-> "error: failed to process scripts.json"]
            ELSE IF ~Truthy(Get(scriptsConfig.o, "scripts"))
                    \/ Get(scriptsConfig.o, "scripts").t # "obj"
            THEN [exit |-> FALSE, pkg |-> p, log |-> "error: invalid scripts.json format"]
            ELSE IF p.t # "obj"
            THEN [exit |-> FALSE, pkg |-> p, log |-> "error: failed to process scripts.json"]
            ELSE LET merged == mergeScripts(p.o, scriptsConfig.o["scripts"].o, FALSE)
                 IN [exit |-> FALSE, log |-> "-",
                     pkg |-> IF Truthy(Get(scriptsConfig.o, "lint-staged"))
                             THEN JObj(mergePackageConfig(merged, "lint-staged",
                                                          scriptsConfig.o["lint-staged"], TRUE))
                             ELSE JObj(merged)]

\* setupScriptsStep of pretty-please on the manifest p and the bundled
\* configs/scripts.json.  A manifest that is no object (null) makes mergeScripts
\* throw at `pkg.scripts`, inside the try block.
setupScriptsStep(p, scriptsJson) ==
    IF scriptsJson.kind = "absent"
    THEN [exit |-> FALSE, pkg |-> p, log |-> "error: scripts.json not found"]
    ELSE LET r == readJSON(scriptsJson)
             scriptsConfig == r.value
         IN IF r.exit THEN [exit |-> TRUE, pkg |-> p, log |-> r.log]
            ELSE IF scriptsConfig.t # "obj"
            THEN [exit |-> FALSE, pkg |-> p, log |-> "error: failed to process scripts.json"]
            ELSE IF ~Truthy(Get(scriptsConfig.o, "scripts"))
                    \/ Get(scriptsConfig.o, "scripts").t # "obj"
            THEN [exit |-> FALSE, pkg |-> p, log |-> "error: invalid scripts.json format"]
            ELSE IF p.t # "obj"
            THEN [exit |-> FALSE, pkg |-> p, log |-> "error: failed to process scripts.json"]
            ELSE LET merged == mergeScripts(p.o, scriptsConfig.o["scripts"].o, FALSE)
                 IN [exit |-> FALSE, log |-> "-",
                     pkg |-> IF Truthy(Get(scriptsConfig.o, "lint-staged"))
                             THEN JObj(mergePackageConfig(merged, "lint-staged",
                                                          scriptsConfig.o["lint-staged"], TRUE))
                             ELSE JObj(merged)]

\* setupScriptsStep of commit-ment.  There is no try block: on a manifest that
\* is no object (null) mergeScripts throws, main rejects, and the catch of
\* main logs the error and calls process.exit(1).
setupScriptsStepCommit(p) ==
    IF p.t # "obj"
    THEN [exit |-> TRUE, pkg |-> p, log |-> "error: setup failed"]
    ELSE [exit |-> FALSE, log |-> "-",
          pkg |-> JObj(mergePackageConfig(
                      mergeScripts(p.o, [commit |-> JStr("cz")], FALSE),
                      "config",
                      JObj([commitizen |-> JObj([path |-> JStr("cz-conventional-changelog")])]),
                      TRUE))]

\* mutant: the manifest is persisted right after the scripts step
stepAfterPersistEarly(step) ==
    CASE step = "validate" -> "copy"
      [] step = "copy" -> "scripts"
      [] step = "scripts" -> "write"
      [] step = "husky" -> "write"
      [] step = "write" -> "done"

\* the order of the steps of main
stepAfter(step) ==
    CASE step = "validate" -> "copy"
      [] step = "copy" -> "scripts"
      [] step = "scripts" -> "husky"
      [] step = "husky" -> "write"
      [] step = "write" -> "done"

(***************************************************************************)
(* Inputs of an orchestrator run                                           *)
(***************************************************************************)
Orchestrators == {"pretty-please", "commit-ment"}

\* the scripts configs/scripts.json adds (README) and a lint-staged block
BundledScripts == [lint |-> JStr("eslint ."), format |-> JStr("prettier --write .")]
BundledLintStaged == JObj([x |-> JObj([q |-> JNum(2)])])

ScriptsJsonStates ==
    {AbsentFile, InvalidFile, JsonFile(JNull),
     JsonFile(JObj([name |-> JStr("x")])),
     JsonFile(JObj([scripts |-> JObj(BundledScripts)])),
     JsonFile(JObj([scripts |-> JObj(BundledScripts)] @@ ("lint-staged" :> BundledLintStaged)))}

\* the bundled hooks directory: whether readdirSync can list it, and its entries
HookEntries(o) ==
    LET name == IF o = "pretty-please" THEN "pre-commit" ELSE "commit-msg"
        file == [name |-> name, isDirectory |-> FALSE]
    IN {[readable |-> FALSE, entries |-> <<>>],
        [readable |-> TRUE, entries |-> <<file>>],
        [readable |-> TRUE, entries |-> <<[name |-> "_", isDirectory |-> TRUE], file>>]}

Bundles(o) ==
    {[configs |-> c, scriptsJson |-> sj, hooks |-> h] :
        c \in [{CONFIGS(o)[n] : n \in 1..Len(CONFIGS(o))} -> BOOLEAN],
        sj \in (IF o = "pretty-please" THEN ScriptsJsonStates ELSE {AbsentFile}),
        h \in HookEntries(o)}

PkgFileStates ==
    {AbsentFile, InvalidFile, JsonFile(JNull),
     JsonFile(JObj(MakeManifest(JUndefined, JUndefined, JUndefined))),
     JsonFile(JObj(MakeManifest(JObj([lint |-> JStr("custom"), prepare |-> JStr("")]),
                                JObj([x |-> JObj([p |-> JNum(1)]), y |-> JObj([p |-> JNum(1)])]),
                                JObj([y |-> JNum(1)]))))}

\* the project's files other than package.json: the config files, the .husky
\* directory and the hook files in it
ProjectStates(o) ==
    LET cfg == {CONFIGS(o)[n] : n \in 1..Len(CONFIGS(o))}
        hookName == IF o = "pretty-please" THEN "pre-commit" ELSE "commit-msg"
        all == {c @@ (".husky" :> d) @@ (hookName :> h) :
                  c \in [cfg -> {Absent, UserFile}],
                  d \in {Absent, "dir"},
                  h \in {Absent, UserFile}}
    IN {f \in all : f[hookName] = Absent \/ f[".husky"] = "dir"}

(***************************************************************************)
(* Specification of an orchestrator run                                    *)
(***************************************************************************)
Init ==
    /\ orch \in Orchestrators
    /\ bundle \in Bundles(orch)
    /\ pc = "validate"
    /\ exitCode = "running"
    /\ pkgFile \in PkgFileStates
    /\ project \in ProjectStates(orch)
    /\ start = [pkgFile |-> pkgFile, project |-> project]
    /\ pkgMem = JUndefined
    /\ idx = 0
    /\ steps = {}
    /\ errors = {}
    /\ writes = 0
    /\ run = [n |-> "first", before |-> {}, allNo |-> TRUE]
    /\ MergeIdle /\ CopyIdle /\ HookIdle /\ ReadyIdle

Logged(msg) == IF msg = "-" THEN errors ELSE errors \cup {msg}

\* the record of the run after a copyFile call that got this answer if it prompted
Answered(prompted, answer) ==
    [run EXCEPT !.allNo = @ /\ (prompted => answer = "n")]

\* process.exit(code)
Exit(code) == pc' = "done" /\ exitCode' = code

\* main: validatePackageJson
Validate ==
    /\ pc = "validate"
    /\ LET r == validatePackageJson(pkgFile)
       IN /\ errors' = Logged(r.log)
          /\ IF r.exit
             THEN Exit(1) /\ UNCHANGED <<pkgMem, steps>>
             ELSE /\ pkgMem' = r.value
                  /\ pc' = stepAfter("validate")
                  /\ steps' = steps \cup {"validate"}
                  /\ UNCHANGED exitCode
          /\ idx' = IF r.exit THEN idx ELSE 1
    /\ UNCHANGED <<orch, bundle, pkgFile, project, start, writes, run>>
    /\ UNCHANGED <<mergeVars, copyVars, hookVars, readyVars>>

\* main: one iteration of copyConfigFiles(configsDir, userRoot, CONFIGS, true)
CopyConfigs ==
    /\ pc = "copy"
    /\ LET file == CONFIGS(orch)[idx]
           last == idx = Len(CONFIGS(orch))
       IN \E answer \in Answers, ioError \in BOOLEAN :
            LET r == copyFile(bundle.configs[file], project[file], TRUE, answer, ioError)
            IN /\ project' = [project EXCEPT ![file] = r.dest]
               /\ errors' = IF r.log \in {"error: source not found", "error: failed to copy"}
                            THEN Logged(r.log) ELSE errors
               /\ idx' = IF last THEN 0 ELSE idx + 1
               /\ pc' = IF last THEN stepAfter("copy") ELSE pc
               /\ steps' = IF last THEN steps \cup {"copy"} ELSE steps
               /\ run' = Answered(r.prompted, answer)
    /\ UNCHANGED <<orch, bundle, exitCode, pkgFile, start, pkgMem, writes>>
    /\ UNCHANGED <<mergeVars, copyVars, hookVars, readyVars>>

\* main: setupScriptsStep(pkg)
Scripts ==
    /\ pc = "scripts"
    /\ LET r == IF orch = "pretty-please" THEN setupScriptsStep(pkgMem, bundle.scriptsJson)
                ELSE setupScriptsStepCommit(pkgMem)
       IN /\ errors' = Logged(r.log)
          /\ pkgMem' = r.pkg
          /\ IF r.exit
             THEN Exit(1) /\ UNCHANGED steps
             ELSE /\ pc' = stepAfter("scripts")
                  /\ steps' = steps \cup {"scripts"}
                  /\ UNCHANGED exitCode
    /\ UNCHANGED <<orch, bundle, pkgFile, project, start, idx, writes, run>>
    /\ UNCHANGED <<mergeVars, copyVars, hookVars, readyVars>>

\* the end of setupHuskyStep: the try block ran through to its last statement,
\* mergeScripts(pkg, { prepare: 'husky' }), which throws on a manifest that is
\* no object, or the catch logged; errs are the messages logged up to there
HuskyDone(failed, errs) ==
    /\ pkgMem' = IF failed \/ pkgMem.t # "obj" THEN pkgMem
                 ELSE JObj(mergeScripts(pkgMem.o, [prepare |-> JStr("husky")], FALSE))
    /\ errors' = IF failed \/ pkgMem.t # "obj"
                 THEN errs \cup {"error: husky setup failed"} ELSE errs
    /\ pc' = stepAfter("husky")
    /\ steps' = steps \cup {"husky"}
    /\ idx' = 0

\* setupHuskyStep up to its first await: mkdirSync, readdirSync, and the
\* directories that head the listing
HuskyBegin ==
    /\ pc = "husky" /\ idx = 0
    /\ \E mkdirFails \in BOOLEAN :
         IF mkdirFails
         THEN HuskyDone(TRUE, errors) /\ UNCHANGED project
         ELSE /\ project' = [project EXCEPT ![".husky"] = "dir"]
              /\ IF ~bundle.hooks.readable
                 THEN HuskyDone(TRUE, errors)
                 ELSE LET rest == {n \in 1..Len(bundle.hooks.entries) :
                                     ~bundle.hooks.entries[n].isDirectory}
                      IN IF rest = {}
                         THEN HuskyDone(FALSE, errors)
                         ELSE /\ idx' = CHOOSE n \in rest : \A m \in rest : n <= m
                              /\ UNCHANGED <<pkgMem, errors, pc, steps>>
    /\ UNCHANGED <<orch, bundle, exitCode, pkgFile, start, writes, run>>
    /\ UNCHANGED <<mergeVars, copyVars, hookVars, readyVars>>

\* setupHuskyStep from one copyFile(src, dest, 'git hook', true) to the next
HuskyCopy ==
    /\ pc = "husky" /\ idx > 0
    /\ LET hookFile == bundle.hooks.entries[idx].name
           later == {n \in (idx + 1)..Len(bundle.hooks.entries) :
                      ~bundle.hooks.entries[n].isDirectory}
       IN \E answer \in Answers, ioError \in BOOLEAN, chmodFails \in BOOLEAN :
            LET r == copyFile(TRUE, project[hookFile], TRUE, answer, ioError)
                errs == IF r.log = "error: failed to copy" THEN Logged(r.log) ELSE errors
            IN /\ project' = [project EXCEPT ![hookFile] = r.dest]
               /\ run' = Answered(r.prompted, answer)
               /\ IF r.ret /\ chmodFails
                  THEN HuskyDone(TRUE, errs)
                  ELSE IF later = {}
                  THEN HuskyDone(FALSE, errs)
                  ELSE /\ idx' = CHOOSE n \in later : \A m \in later : n <= m
                       /\ errors' = errs
                       /\ UNCHANGED <<pkgMem, pc, steps>>
    /\ UNCHANGED <<orch, bundle, exitCode, pkgFile, start, writes>>
    /\ UNCHANGED <<mergeVars, copyVars, hookVars, readyVars>>

\* main: writeJSON(pkgPath, pkg), and the return of main
Write ==
    /\ pc = "write"
    /\ \E ioError \in BOOLEAN :
         LET r == writeJSON(pkgFile, pkgMem, ioError)
         IN /\ pkgFile' = r.file
            /\ errors' = Logged(r.log)
            /\ writes' = IF r.exit THEN writes ELSE writes + 1
            /\ IF r.exit
               THEN Exit(1) /\ UNCHANGED steps
               ELSE /\ pc' = stepAfter("write")
                    /\ exitCode' = 0
                    /\ steps' = steps \cup {"write"}
    /\ UNCHANGED <<orch, bundle, project, start, pkgMem, idx, run>>
    /\ UNCHANGED <<mergeVars, copyVars, hookVars, readyVars>>

\* the orchestrator is started again on the project a run that ended with
\* exit code 0 has left
Rerun ==
    /\ pc = "done" /\ exitCode = 0 /\ run.n = "first"
    /\ run' = [n |-> "second", before |-> errors, allNo |-> TRUE]
    /\ start' = [pkgFile |-> pkgFile, project |-> project]
    /\ pc' = "validate"
    /\ exitCode' = "running"
    /\ pkgMem' = JUndefined
    /\ idx' = 0
    /\ steps' = {}
    /\ errors' = {}
    /\ writes' = 0
    /\ UNCHANGED <<orch, bundle, pkgFile, project>>
    /\ UNCHANGED <<mergeVars, copyVars, hookVars, readyVars>>

Next == Validate \/ CopyConfigs \/ Scripts \/ HuskyBegin \/ HuskyCopy \/ Write \/ Rerun

Spec == Init /\ [][Next]_vars

(***************************************************************************)
(* C1: when package.json is absent at the start of a run of either         *)
(* orchestrator, the run goes no further than the validation, which can    *)
(* always run and ends the process with exit code 1, and no file of the    *)
(* project is created or changed: no config file, no .husky directory, no  *)
(* hook file and no package.json.                                          *)
(***************************************************************************)
C1_NoManifestNoChange ==
    start.pkgFile = AbsentFile =>
        /\ pc \in {"validate", "done"}
        /\ pc = "validate" => ENABLED Validate
        /\ pc = "done" => exitCode = 1
        /\ pkgFile = AbsentFile
        /\ project = start.project
        /\ steps = {} /\ writes = 0

C1_Witness ==
    /\ start.pkgFile = AbsentFile
    /\ pc = "done" /\ exitCode = 1
    /\ "error: no package.json found" \in errors
    /\ \E f \in DOMAIN project : project[f] = Absent /\ f \in DOMAIN bundle.configs
                                   /\ bundle.configs[f]

(***************************************************************************)
(* C2: in every run package.json is written at most once, by the last      *)
(* step, after the copy, script-merge and hook steps have run; in every    *)
(* state before that write, a terminated run included, package.json on     *)
(* disk is what it was when the run started.                               *)
(***************************************************************************)
C2_ManifestWrittenOnceAtEnd ==
    /\ writes <= 1
    /\ writes = 0 => pkgFile = start.pkgFile
    /\ writes = 1 =>
         /\ pc = "done" /\ exitCode = 0
         /\ {"validate", "copy", "scripts", "husky", "write"} \subseteq steps
         /\ pkgFile = JsonFile(pkgMem)

\* a run that has written a package.json that differs from the one it read
C2_Witness ==
    /\ writes = 1 /\ pc = "done"
    /\ pkgFile # start.pkgFile
    /\ "husky" \in steps

(***************************************************************************)
(* C10 (as stated): in the lint/format orchestrator a missing              *)
(* configs/scripts.json is fatal: once the scripts step has met it, the    *)
(* failure is logged, the process ends with a nonzero exit code, and the   *)
(* hook step and the write of package.json do not run.                     *)
(***************************************************************************)
PastScripts == pc \in {"husky", "write", "done"} /\ steps # {} /\ "copy" \in steps

C10_MissingDescriptorFatal ==
    (orch = "pretty-please" /\ bundle.scriptsJson = AbsentFile /\ PastScripts) =>
        /\ "error: scripts.json not found" \in errors
        /\ pc = "done" /\ exitCode = 1
        /\ "husky" \notin steps /\ writes = 0

(***************************************************************************)
(* C10 (amended): in the lint/format orchestrator a missing                *)
(* configs/scripts.json is logged and only the script merge is skipped:    *)
(* the manifest leaves the scripts step as it was read, the hook step and  *)
(* the write of package.json still run, and the run ends with exit code 0  *)
(* unless the write itself fails.  A scripts.json that exists but cannot   *)
(* be read or parsed is fatal: the failure is logged, the exit code is 1,  *)
(* and the hook step and the write do not run.                             *)
(***************************************************************************)
C10_MissingDescriptorSkipsMerge ==
    (orch = "pretty-please" /\ PastScripts) =>
        /\ bundle.scriptsJson = AbsentFile =>
             /\ "error: scripts.json not found" \in errors
             /\ "scripts" \in steps
             /\ (pc = "husky" /\ idx = 0) => pkgMem = start.pkgFile.value
             /\ pc = "done" =>
                  /\ "husky" \in steps
                  /\ \/ exitCode = 0 /\ writes = 1
                     \/ exitCode = 1 /\ "error: failed to write" \in errors
        /\ bundle.scriptsJson = InvalidFile =>
             /\ "error: failed to read" \in errors
             /\ pc = "done" /\ exitCode = 1
             /\ "husky" \notin steps /\ writes = 0

\* a run without scripts.json that has installed the hook, added the prepare
\* script and written package.json
C10_Witness ==
    /\ orch = "pretty-please" /\ bundle.scriptsJson = AbsentFile
    /\ pc = "done" /\ exitCode = 0 /\ writes = 1
    /\ "error: scripts.json not found" \in errors
    /\ project["pre-commit"] = Bundled
    /\ start.project["pre-commit"] = Absent
    /\ pkgFile.value.t = "obj"
    /\ Get(pkgFile.value.o, "scripts") = JObj([prepare |-> JStr("husky")])

(***************************************************************************)
(* A run whose steps are each taken once they can be: every await of main  *)
(* resolves (the user answers each prompt) and every call returns          *)
(***************************************************************************)
MainStep == Validate \/ CopyConfigs \/ Scripts \/ HuskyBegin \/ HuskyCopy \/ Write

SpecFair == Spec /\ WF_vars(MainStep)

AllSteps == {"validate", "copy", "scripts", "husky", "write"}

\* the steps run in the order validate, copy, scripts, husky, write
InOrder ==
    /\ "copy" \in steps => "validate" \in steps
    /\ "scripts" \in steps => "copy" \in steps
    /\ "husky" \in steps => "scripts" \in steps
    /\ "write" \in steps => "husky" \in steps

C12_Pre ==
    /\ start.pkgFile.kind = "json" /\ start.pkgFile.value.t = "obj"
    /\ orch = "pretty-please" => bundle.scriptsJson # InvalidFile

C12_Safe ==
    (C12_Pre /\ "validate" \in steps) =>
        /\ InOrder
        /\ pkgMem.t = "obj"
        /\ ("copy" \in steps /\ \E f \in DOMAIN bundle.configs : ~bundle.configs[f]) =>
             "error: source not found" \in errors
        /\ "husky" \in steps =>
             /\ ~bundle.hooks.readable => "error: husky setup failed" \in errors
             /\ \/ "error: husky setup failed" \in errors
                \/ Truthy(Get(pkgMem.o["scripts"].o, "prepare"))
             /\ orch = "commit-ment" =>
                  /\ Truthy(Get(pkgMem.o["scripts"].o, "commit"))
                  /\ "commitizen" \in DOMAIN pkgMem.o["config"].o
        /\ pc = "done" =>
             /\ AllSteps \ {"write"} \subseteq steps
             /\ \/ /\ exitCode = 0 /\ writes = 1 /\ "write" \in steps
                   /\ pkgFile = JsonFile(pkgMem)
                \/ /\ exitCode = 1 /\ writes = 0 /\ "write" \notin steps
                   /\ "error: failed to write" \in errors
                   /\ pkgFile = start.pkgFile

====
